---- MODULE Spec2Model ----
(***************************************************************************)
(* Layered configuration loading of helix-term (src/helix-term/src/        *)
(* config.rs): ConfigRaw::default, ConfigRaw::load, ConfigRaw::merge,      *)
(* Config::try_from and Config::load.                                      *)
(*                                                                         *)
(* Encodings.  Option<T> is a sequence of length at most one (<<>> is      *)
(* None, <<x>> is Some(x)).  A toml::Value is a record: a scalar           *)
(* [t |-> "S", ty, v] or a table [t |-> "T", m] with m a function from     *)
(* key strings to values.  A KeyTrie is a leaf [t |-> "Leaf", cmd] or a    *)
(* node [t |-> "Node", name, map].                                         *)
(***************************************************************************)
EXTENDS Integers, Sequences, FiniteSets, TLC

\* Config::load.
VARIABLES fs_global, fs_workspace, pc, global, final_raw, result, reads, materialized

\* ConfigRaw::merge and Config::try_from applied to given raw configs, as
\* Config::load_test applies them.
VARIABLES unit_pc, unit_self, unit_other, unit_trust, unit_merged, unit_out

\* helix_loader::config::user_lang_config.
VARIABLES lang_fs_global, lang_fs_workspace, lang_pc, lang_global, lang_result, lang_reads

load_vars == <<fs_global, fs_workspace, pc, global, final_raw, result, reads, materialized>>

unit_vars == <<unit_pc, unit_self, unit_other, unit_trust, unit_merged, unit_out>>

lang_vars == <<lang_fs_global, lang_fs_workspace, lang_pc, lang_global, lang_result, lang_reads>>

vars == <<load_vars, unit_vars, lang_vars>>

(***************************************************************************)
(* Bounds of the input space.                                              *)
(***************************************************************************)
MaxTheme == 2

MaxCmd == 2

MaxScalar == 2

MaxNest == 4

ThemeNames == <<"dark", "light", "solarized", "nord">>

CmdNames == <<"move_line_down", "delete_selection", "move_next_word_end", "page_up">>

ChainKeys == <<"a", "b", "c", "d", "e", "f">>

(***************************************************************************)
(* Option<T> helpers (std::option).                                        *)
(***************************************************************************)
None == <<>>

Some(x) == <<x>>

OptionOr(a, b) == IF a # None THEN a ELSE b

UnwrapOr(a, d) == IF a # None THEN a[1] ELSE d

(***************************************************************************)
(* toml::Value constructors.                                               *)
(***************************************************************************)
IntV(n) == [t |-> "S", ty |-> "int", v |-> n]

StrV(n) == [t |-> "S", ty |-> "str", v |-> n]

Tbl(f) == [t |-> "T", m |-> f]

One(k, val) == Tbl([x \in {k} |-> val])

\* The table a.b...<last> = leaf of nesting depth n (n >= 1).
RECURSIVE ChainFrom(_, _, _, _)
ChainFrom(i, n, last, leaf) ==
    IF i = n THEN One(last, leaf)
    ELSE One(ChainKeys[i], ChainFrom(i + 1, n, last, leaf))

Chain(n) == ChainFrom(1, n, ChainKeys[n], IntV(1))

Sib(n) == ChainFrom(1, n, "s", IntV(2))

(***************************************************************************)
(* ValueTree merge engine, helix_loader::merge_toml_values (spec 4.1).     *)
(***************************************************************************)
RECURSIVE merge_toml_values(_, _, _)
merge_toml_values(left, right, merge_depth) ==
    IF left.t = "T" /\ right.t = "T" /\ merge_depth > 0
    THEN Tbl([k \in (DOMAIN left.m) \cup (DOMAIN right.m) |->
                IF k \in DOMAIN left.m /\ k \in DOMAIN right.m
                THEN merge_toml_values(left.m[k], right.m[k], merge_depth - 1)
                ELSE IF k \in DOMAIN left.m THEN left.m[k] ELSE right.m[k]])
    ELSE right

(***************************************************************************)
(* KeyTrie and the keybinding merge engine, keymap::merge_keys (spec 4.2). *)
(***************************************************************************)
Leaf(c) == [t |-> "Leaf", cmd |-> c]

Node(n, f) == [t |-> "Node", name |-> n, map |-> f]

Modes == {"normal", "insert", "select"}

\* An overlay Leaf replaces whatever the base holds; two Nodes are merged
\* child by child, the base's display name kept unless the overlay has one;
\* an overlay Node over a base Leaf is inserted in its place.
RECURSIVE merge_nodes(_, _)
merge_nodes(base, overlay) ==
    IF overlay.t = "Leaf" THEN overlay
    ELSE IF base.t = "Leaf" THEN overlay
    ELSE Node(IF overlay.name # "" THEN overlay.name ELSE base.name,
              [k \in (DOMAIN base.map) \cup (DOMAIN overlay.map) |->
                 IF k \in DOMAIN base.map /\ k \in DOMAIN overlay.map
                 THEN merge_nodes(base.map[k], overlay.map[k])
                 ELSE IF k \in DOMAIN base.map THEN base.map[k] ELSE overlay.map[k]])

merge_keys(base, overlay) ==
    [mode \in (DOMAIN base) \cup (DOMAIN overlay) |->
        IF mode \in DOMAIN base /\ mode \in DOMAIN overlay
        THEN merge_nodes(base[mode], overlay[mode])
        ELSE IF mode \in DOMAIN base THEN base[mode] ELSE overlay[mode]]

\* The compiled-in keymap, one trie per Mode (keymap::default).
keymap_default ==
    [mode \in Modes |->
        CASE mode = "normal" ->
               Node("Normal mode",
                    [k \in {"j", "g"} |->
                       IF k = "j" THEN Leaf("move_line_down")
                       ELSE Node("Goto",
                                 [c \in {"g", "e"} |->
                                    IF c = "g" THEN Leaf("goto_file_start")
                                    ELSE Leaf("goto_last_line")])])
          [] mode = "insert" ->
               Node("Insert mode", [k \in {"esc"} |-> Leaf("normal_mode")])
          [] OTHER ->
               Node("Select mode", [k \in {"j"} |-> Leaf("extend_line_down")])]

(***************************************************************************)
(* Editor settings schema, helix_view::editor::Config (spec 4.4): a type   *)
(* descriptor, a scalar type or a table of field descriptors.              *)
(* Every field is optional and has a default.                              *)
(***************************************************************************)
IntType == [k |-> "int"]

TTable(f) == [k |-> "table", fields |-> f]

EditorSchema ==
    TTable([x \in {"n", "a"} |->
        IF x = "n" THEN IntType
        ELSE TTable([y \in {"b"} |->
               TTable([z \in {"c"} |->
                 TTable([w \in {"d", "s"} |-> IntType])])])])

\* Strict validation: unknown fields and wrong types are rejected.
RECURSIVE Validates(_, _)
Validates(value, ty) ==
    IF ty.k = "table"
    THEN /\ value.t = "T"
         /\ \A f \in DOMAIN value.m :
               f \in DOMAIN ty.fields /\ Validates(value.m[f], ty.fields[f])
    ELSE value.t = "S" /\ value.ty = ty.k

\* The default of a type: 0 for a scalar, all fields defaulted for a table.
RECURSIVE DefaultOf(_)
DefaultOf(ty) ==
    IF ty.k = "table"
    THEN Tbl([f \in DOMAIN ty.fields |-> DefaultOf(ty.fields[f])])
    ELSE [t |-> "S", ty |-> ty.k, v |-> 0]

\* Deserialization of a validated tree: unset fields take their default.
RECURSIVE Deserialize(_, _)
Deserialize(value, ty) ==
    IF ty.k = "table"
    THEN Tbl([f \in DOMAIN ty.fields |->
                IF f \in DOMAIN value.m
                THEN Deserialize(value.m[f], ty.fields[f])
                ELSE DefaultOf(ty.fields[f])])
    ELSE value

editor_Config_default == DefaultOf(EditorSchema)

(***************************************************************************)
(* ConfigRaw (config.rs:28-35) and its Default impl (config.rs:37-46).     *)
(***************************************************************************)
ConfigRaw(wc, th, ks, ed) ==
    [workspace_config |-> wc, theme |-> th, keys |-> ks, editor |-> ed]

ConfigRaw_default == ConfigRaw(Some(FALSE), None, Some(keymap_default), None)

\* A document in which every field is absent.
EmptyRaw == ConfigRaw(None, None, None, None)

(***************************************************************************)
(* Results.  ConfigLoadError (config.rs:15-18) is Error(io kind) or        *)
(* BadConfig.                                                              *)
(***************************************************************************)
Ok(x) == [status |-> "Ok", io |-> "", value |-> Some(x)]

Err(kind, io) == [status |-> kind, io |-> io, value |-> None]

Pending == [status |-> "Pending", io |-> "", value |-> None]

(***************************************************************************)
(* A file as the loader meets it: whether fs::read_to_string succeeds      *)
(* (io), whether the text is valid syntax, whether it has a top-level key  *)
(* outside workspace-config/theme/keys/editor, and the recognised fields.  *)
(***************************************************************************)
File(io, syntax, unknown, raw) ==
    [io |-> io, syntax |-> syntax, unknown_key |-> unknown, raw |-> raw]

\* Variant of ConfigRaw::load without deny_unknown_fields.
ConfigRaw_load_allow_unknown(file) ==
    IF file.io # "ok" THEN Err("Error", file.io)
    ELSE IF ~file.syntax THEN Err("BadConfig", "")
    ELSE Ok(file.raw)

\* ConfigRaw::load: read the file, then parse it with deny_unknown_fields.
ConfigRaw_load(file) ==
    IF file.io # "ok" THEN Err("Error", file.io)
    ELSE IF ~file.syntax \/ file.unknown_key THEN Err("BadConfig", "")
    ELSE Ok(file.raw)

\* The depth passed to merge_toml_values (config.rs:66).
EditorMergeDepth == 3

\* Variant of ConfigRaw::merge that lets the overlay set workspace_config
\* whatever the trust.
ConfigRaw_merge_ignoring_trust(self, other, trust) ==
    [workspace_config |-> OptionOr(other.workspace_config, self.workspace_config),
     theme |-> OptionOr(other.theme, self.theme),
     keys |->
        IF self.keys # None /\ other.keys # None
        THEN Some(merge_keys(self.keys[1], other.keys[1]))
        ELSE OptionOr(self.keys, other.keys),
     editor |->
        IF self.editor # None /\ other.editor # None
        THEN Some(merge_toml_values(self.editor[1], other.editor[1], EditorMergeDepth))
        ELSE OptionOr(self.editor, other.editor)]

\* Variant of ConfigRaw::merge with the operands of theme's `or` swapped.
ConfigRaw_merge_theme_base_first(self, other, trust) ==
    [workspace_config |->
        IF trust THEN OptionOr(other.workspace_config, self.workspace_config)
        ELSE self.workspace_config,
     theme |-> OptionOr(self.theme, other.theme),
     keys |->
        IF self.keys # None /\ other.keys # None
        THEN Some(merge_keys(self.keys[1], other.keys[1]))
        ELSE OptionOr(self.keys, other.keys),
     editor |->
        IF self.editor # None /\ other.editor # None
        THEN Some(merge_toml_values(self.editor[1], other.editor[1], EditorMergeDepth))
        ELSE OptionOr(self.editor, other.editor)]

\* Variant of ConfigRaw::merge in which the overlay's keys replace the
\* base's instead of being merged into them.
ConfigRaw_merge_keys_replaced(self, other, trust) ==
    [workspace_config |->
        IF trust THEN OptionOr(other.workspace_config, self.workspace_config)
        ELSE self.workspace_config,
     theme |-> OptionOr(other.theme, self.theme),
     keys |-> OptionOr(other.keys, self.keys),
     editor |->
        IF self.editor # None /\ other.editor # None
        THEN Some(merge_toml_values(self.editor[1], other.editor[1], EditorMergeDepth))
        ELSE OptionOr(self.editor, other.editor)]

\* Variant of ConfigRaw::merge that merges the editor trees one level less.
ConfigRaw_merge_depth_two(self, other, trust) ==
    [workspace_config |->
        IF trust THEN OptionOr(other.workspace_config, self.workspace_config)
        ELSE self.workspace_config,
     theme |-> OptionOr(other.theme, self.theme),
     keys |->
        IF self.keys # None /\ other.keys # None
        THEN Some(merge_keys(self.keys[1], other.keys[1]))
        ELSE OptionOr(self.keys, other.keys),
     editor |->
        IF self.editor # None /\ other.editor # None
        THEN Some(merge_toml_values(self.editor[1], other.editor[1], EditorMergeDepth - 1))
        ELSE OptionOr(self.editor, other.editor)]

\* Variant of ConfigRaw::merge with the operands of merge_keys swapped.
ConfigRaw_merge_keys_swapped(self, other, trust) ==
    [workspace_config |->
        IF trust THEN OptionOr(other.workspace_config, self.workspace_config)
        ELSE self.workspace_config,
     theme |-> OptionOr(other.theme, self.theme),
     keys |->
        IF self.keys # None /\ other.keys # None
        THEN Some(merge_keys(other.keys[1], self.keys[1]))
        ELSE OptionOr(self.keys, other.keys),
     editor |->
        IF self.editor # None /\ other.editor # None
        THEN Some(merge_toml_values(self.editor[1], other.editor[1], EditorMergeDepth))
        ELSE OptionOr(self.editor, other.editor)]

\* Variant of ConfigRaw::merge that takes the overlay's theme as it is.
ConfigRaw_merge_theme_clobbered(self, other, trust) ==
    [workspace_config |->
        IF trust THEN OptionOr(other.workspace_config, self.workspace_config)
        ELSE self.workspace_config,
     theme |-> other.theme,
     keys |->
        IF self.keys # None /\ other.keys # None
        THEN Some(merge_keys(self.keys[1], other.keys[1]))
        ELSE OptionOr(self.keys, other.keys),
     editor |->
        IF self.editor # None /\ other.editor # None
        THEN Some(merge_toml_values(self.editor[1], other.editor[1], EditorMergeDepth))
        ELSE OptionOr(self.editor, other.editor)]

\* ConfigRaw::merge.
ConfigRaw_merge(self, other, trust) ==
    [workspace_config |->
        IF trust THEN OptionOr(other.workspace_config, self.workspace_config)
        ELSE self.workspace_config,
     theme |-> OptionOr(other.theme, self.theme),
     keys |->
        IF self.keys # None /\ other.keys # None
        THEN Some(merge_keys(self.keys[1], other.keys[1]))
        ELSE OptionOr(self.keys, other.keys),
     editor |->
        IF self.editor # None /\ other.editor # None
        THEN Some(merge_toml_values(self.editor[1], other.editor[1], EditorMergeDepth))
        ELSE OptionOr(self.editor, other.editor)]

(***************************************************************************)
(* Config (config.rs:75-80) and TryFrom<ConfigRaw> for Config.             *)
(***************************************************************************)
Config(wc, th, ks, ed) ==
    [workspace_config |-> wc, theme |-> th, keys |-> ks, editor |-> ed]

\* Default for Config (config.rs:82-92), built from ConfigRaw::default().
Config_default ==
    Config(UnwrapOr(ConfigRaw_default.workspace_config, FALSE),
           ConfigRaw_default.theme,
           UnwrapOr(ConfigRaw_default.keys, keymap_default),
           editor_Config_default)

\* Variant of the conversion that falls back to the default editor settings
\* when the editor tree does not validate.
Config_try_from_unvalidated(config) ==
    Ok(Config(UnwrapOr(config.workspace_config, FALSE),
              config.theme,
              UnwrapOr(config.keys, keymap_default),
              IF config.editor # None /\ Validates(config.editor[1], EditorSchema)
              THEN Deserialize(config.editor[1], EditorSchema)
              ELSE editor_Config_default))

\* Variant of the conversion that reports an absent editor tree as an
\* error.
Config_try_from_editor_required(config) ==
    IF config.editor = None \/ ~Validates(config.editor[1], EditorSchema)
    THEN Err("BadConfig", "")
    ELSE Ok(Config(UnwrapOr(config.workspace_config, FALSE),
                   config.theme,
                   UnwrapOr(config.keys, keymap_default),
                   Deserialize(config.editor[1], EditorSchema)))

\* Variant of the conversion with keys.unwrap_or_default(): absent keys give
\* an empty map.
Config_try_from_keys_unwrap_or_default(config) ==
    IF config.editor # None /\ ~Validates(config.editor[1], EditorSchema)
    THEN Err("BadConfig", "")
    ELSE Ok(Config(UnwrapOr(config.workspace_config, FALSE),
                   config.theme,
                   UnwrapOr(config.keys, [mode \in {} |-> Leaf("")]),
                   IF config.editor # None
                   THEN Deserialize(config.editor[1], EditorSchema)
                   ELSE editor_Config_default))

Config_try_from(config) ==
    IF config.editor # None /\ ~Validates(config.editor[1], EditorSchema)
    THEN Err("BadConfig", "")
    ELSE Ok(Config(UnwrapOr(config.workspace_config, FALSE),
                   config.theme,
                   UnwrapOr(config.keys, keymap_default),
                   IF config.editor # None
                   THEN Deserialize(config.editor[1], EditorSchema)
                   ELSE editor_Config_default))

(***************************************************************************)
(* Config::load, step by step.                                             *)
(***************************************************************************)
\* Variant of the gate that attempts the workspace layer unconditionally.
WorkspaceEnabled_always(g) == TRUE

\* The scrutinee of the outer match (config.rs:124).
WorkspaceEnabled(g) == UnwrapOr(g.workspace_config, FALSE)

\* Variant of the inner match that swallows every error of the workspace
\* load.
WorkspaceLayer_swallow_all(g, loaded) ==
    IF loaded.status = "Ok" THEN Ok(ConfigRaw_merge(g, loaded.value[1], FALSE))
    ELSE Ok(g)

\* Variant of the inner match that propagates every error of the workspace
\* load.
WorkspaceLayer_all_fatal(g, loaded) ==
    IF loaded.status = "Ok" THEN Ok(ConfigRaw_merge(g, loaded.value[1], FALSE))
    ELSE loaded

\* The inner match on the workspace load (config.rs:126-130): the raw
\* config handed on, or the error propagated by `?`.
WorkspaceLayer(g, loaded) ==
    IF loaded.status = "Ok" THEN Ok(ConfigRaw_merge(g, loaded.value[1], FALSE))
    ELSE IF loaded.status = "Error" THEN Ok(g)
    ELSE loaded

(***************************************************************************)
(* Inputs: the contents the two files may have.                            *)
(***************************************************************************)
Themes == {ThemeNames[i] : i \in 1..MaxTheme}

Cmds == {CmdNames[i] : i \in 1..MaxCmd}

OneMode(mode, chord, trie) ==
    [x \in {mode} |-> Node("", [c \in {chord} |-> trie])]

KeysChoices ==
    {None, Some([x \in {} |-> Leaf("")])}
    \cup {Some(OneMode("normal", "j", Leaf(c))) : c \in Cmds}
    \cup {Some(OneMode("normal", "g", Leaf(CmdNames[1]))),
          Some(OneMode("normal", "g", Node("", [c \in {"x"} |-> Leaf(CmdNames[1])]))),
          Some(OneMode("normal", "j", Node("", [c \in {"x"} |-> Leaf(CmdNames[1])]))),
          Some([x \in {"insert", "normal"} |->
                 IF x = "insert"
                 THEN Node("", [c \in {"y", "S-C-a"} |->
                         IF c = "y" THEN Leaf("move_line_down")
                         ELSE Leaf("delete_selection")])
                 ELSE Node("", [c \in {"A-F12"} |-> Leaf("move_next_word_end")])])}

EditorChoices ==
    {None, Some(IntV(1)), Some(One("n", StrV(1))), Some(One("z", IntV(1)))}
    \cup {Some(One("n", IntV(i))) : i \in 1..MaxScalar}
    \cup {Some(Chain(n)) : n \in 1..MaxNest}
    \cup {Some(Sib(n)) : n \in 3..MaxNest}

\* Documents that set keys and editor together take one of them from a
\* short list; every other combination of the four fields is drawn.
RawConfigs ==
    {ConfigRaw(wc, th, c[1], c[2]) :
        wc \in {None, Some(TRUE), Some(FALSE)},
        th \in {None} \cup {Some(x) : x \in Themes},
        c \in {d \in KeysChoices \X EditorChoices :
                 \/ d[1] = None
                 \/ d[2] \in {None, Some(One("n", IntV(1)))}}}

Files ==
    {File("NotFound", TRUE, FALSE, EmptyRaw),
     File("PermissionDenied", TRUE, FALSE, EmptyRaw),
     File("ok", FALSE, FALSE, EmptyRaw),
     File("ok", TRUE, TRUE, EmptyRaw),
     File("ok", TRUE, TRUE, ConfigRaw(Some(TRUE), Some(ThemeNames[1]), None, None))}
    \cup {File("ok", TRUE, FALSE, r) : r \in RawConfigs}

(***************************************************************************)
(* Language configuration, src/helix-loader/src/config.rs.                 *)
(***************************************************************************)
BoolV(b) == [t |-> "S", ty |-> "bool", v |-> IF b THEN 1 ELSE 0]

\* toml::Value::get with a string index.
ValueGet(value, key) ==
    IF value.t = "T" /\ key \in DOMAIN value.m THEN Some(value.m[key]) ELSE None

\* toml::Value::as_bool.
as_bool(value) ==
    IF value.t = "S" /\ value.ty = "bool" THEN Some(value.v = 1) ELSE None

\* The built-in languages.toml (default_lang_config).
default_lang_config ==
    One("language", Tbl([l \in {"rust", "toml"} |-> IntV(0)]))

\* A languages file as the loader meets it: whether it can be read, whether
\* its text is valid syntax, and the document it holds.
LangFile(io, syntax, tree) == [io |-> io, syntax |-> syntax, tree |-> tree]

\* The depth passed to merge_toml_values (helix-loader config.rs:18).
LangMergeDepth == 3

\* Variant of merge_language_config that propagates a read error.
merge_language_config_io_fatal(left, file) ==
    IF file.io # "ok" THEN Err("IoError", file.io)
    ELSE IF ~file.syntax THEN Err("TomlError", "")
    ELSE Ok(merge_toml_values(left, file.tree, LangMergeDepth))

\* merge_language_config: `.ok()` drops every read error, `transpose()?`
\* propagates the parse error.
merge_language_config(left, file) ==
    IF file.io # "ok" THEN Ok(left)
    ELSE IF ~file.syntax THEN Err("TomlError", "")
    ELSE Ok(merge_toml_values(left, file.tree, LangMergeDepth))

\* Variant of the gate that matches Some(_): any boolean enables the
\* workspace layer.
LangWorkspaceEnabled_any_bool(g) ==
    LET v == ValueGet(g, "workspace-config") IN
      (IF v = None THEN None ELSE as_bool(v[1])) # None

\* global.get("workspace-config").and_then(|v| v.as_bool()) matches
\* Some(true) (helix-loader config.rs:29-30).
LangWorkspaceEnabled(g) ==
    LET v == ValueGet(g, "workspace-config") IN
      (IF v = None THEN None ELSE as_bool(v[1])) = Some(TRUE)

LangTrees ==
    {Tbl([k \in {} |-> IntV(0)]),
     One("workspace-config", BoolV(TRUE)),
     One("workspace-config", BoolV(FALSE)),
     One("workspace-config", StrV(1)),
     One("workspace-config", One("enable", BoolV(TRUE))),
     Tbl([k \in {"workspace-config", "language"} |->
            IF k = "language" THEN One("rust", IntV(1)) ELSE BoolV(TRUE)]),
     Tbl([k \in {"workspace-config", "language"} |->
            IF k = "language" THEN One("rust", IntV(1)) ELSE BoolV(FALSE)])}
    \cup {One("language", One("rust", IntV(i))) : i \in 1..MaxScalar}
    \cup {One("language", One("go", IntV(i))) : i \in 1..MaxScalar}

LangFiles ==
    {LangFile("NotFound", TRUE, Tbl([k \in {} |-> IntV(0)])),
     LangFile("PermissionDenied", TRUE, Tbl([k \in {} |-> IntV(0)])),
     LangFile("ok", FALSE, Tbl([k \in {} |-> IntV(0)])),
     LangFile("ok", FALSE, One("workspace-config", BoolV(TRUE)))}
    \cup {LangFile("ok", TRUE, tr) : tr \in LangTrees}

(***************************************************************************)
(* The three groups of variables at rest.                                  *)
(***************************************************************************)
LoadIdle ==
    /\ fs_global = File("NotFound", TRUE, FALSE, EmptyRaw)
    /\ fs_workspace = File("NotFound", TRUE, FALSE, EmptyRaw)
    /\ pc = "Idle"
    /\ global = None
    /\ final_raw = None
    /\ result = Pending
    /\ reads = <<>>
    /\ materialized = 0

UnitIdle ==
    /\ unit_pc = "Idle"
    /\ unit_self = EmptyRaw
    /\ unit_other = EmptyRaw
    /\ unit_trust = FALSE
    /\ unit_merged = None
    /\ unit_out = Pending

LangIdle ==
    /\ lang_fs_global = LangFile("NotFound", TRUE, Tbl([k \in {} |-> IntV(0)]))
    /\ lang_fs_workspace = LangFile("NotFound", TRUE, Tbl([k \in {} |-> IntV(0)]))
    /\ lang_pc = "Idle"
    /\ lang_global = None
    /\ lang_result = Pending
    /\ lang_reads = <<>>

(***************************************************************************)
(* State machine.  fs_global and fs_workspace are the files at             *)
(* helix_loader::config_file() and helix_loader::workspace_config_file();  *)
(* reads lists the files read so far.                                      *)
(***************************************************************************)
Init ==
    /\ fs_global \in Files
    /\ fs_workspace \in Files
    /\ pc = "Start"
    /\ global = None
    /\ final_raw = None
    /\ result = Pending
    /\ reads = <<>>
    /\ materialized = 0
    /\ UnitIdle
    /\ LangIdle

\* let default = ConfigRaw::default();
LoadDefault ==
    /\ pc = "Start"
    /\ pc' = "LoadedDefault"
    /\ UNCHANGED <<fs_global, fs_workspace, global, final_raw, result, reads, materialized>>
    /\ UNCHANGED <<unit_vars, lang_vars>>

\* Variant of the global step that reads the file a second time after a
\* read error.
LoadGlobal_retry ==
    /\ pc = "LoadedDefault"
    /\ LET loaded == ConfigRaw_load(fs_global) IN
         /\ reads' = Append(reads, "global")
         /\ IF loaded.status = "Ok"
            THEN /\ global' = Some(ConfigRaw_merge(ConfigRaw_default, loaded.value[1], TRUE))
                 /\ pc' = "LoadedGlobal"
                 /\ result' = result
            ELSE IF loaded.status = "Error" /\ reads = <<>>
            THEN /\ global' = global
                 /\ pc' = "LoadedDefault"
                 /\ result' = result
            ELSE /\ global' = global
                 /\ pc' = "Failed"
                 /\ result' = loaded
    /\ UNCHANGED <<fs_global, fs_workspace, final_raw, materialized>>
    /\ UNCHANGED <<unit_vars, lang_vars>>

\* let global = default.merge(ConfigRaw::load(config_file())?, true);
LoadGlobal ==
    /\ pc = "LoadedDefault"
    /\ LET loaded == ConfigRaw_load(fs_global) IN
         /\ reads' = Append(reads, "global")
         /\ IF loaded.status = "Ok"
            THEN /\ global' = Some(ConfigRaw_merge(ConfigRaw_default, loaded.value[1], TRUE))
                 /\ pc' = "LoadedGlobal"
                 /\ result' = result
            ELSE /\ global' = global
                 /\ pc' = "Failed"
                 /\ result' = loaded
    /\ UNCHANGED <<fs_global, fs_workspace, final_raw, materialized>>
    /\ UNCHANGED <<unit_vars, lang_vars>>

\* The false arm: the global raw config is converted as it is.
SkipWorkspace ==
    /\ pc = "LoadedGlobal"
    /\ ~WorkspaceEnabled(global[1])
    /\ final_raw' = global
    /\ result' = Config_try_from(global[1])
    /\ materialized' = materialized + 1
    /\ pc' = IF result'.status = "Ok" THEN "Done" ELSE "Failed"
    /\ UNCHANGED <<fs_global, fs_workspace, global, reads>>
    /\ UNCHANGED <<unit_vars, lang_vars>>

\* The true arm: the workspace file is loaded and matched on.
LoadWorkspace ==
    /\ pc = "LoadedGlobal"
    /\ WorkspaceEnabled(global[1])
    /\ LET layer == WorkspaceLayer(global[1], ConfigRaw_load(fs_workspace)) IN
         /\ reads' = Append(reads, "workspace")
         /\ IF layer.status = "Ok"
            THEN /\ final_raw' = layer.value
                 /\ pc' = "LoadedWorkspace"
                 /\ result' = result
            ELSE /\ final_raw' = final_raw
                 /\ pc' = "Failed"
                 /\ result' = layer
    /\ UNCHANGED <<fs_global, fs_workspace, global, materialized>>
    /\ UNCHANGED <<unit_vars, lang_vars>>

\* .try_into() on the raw config of the true arm.
Materialize ==
    /\ pc = "LoadedWorkspace"
    /\ result' = Config_try_from(final_raw[1])
    /\ materialized' = materialized + 1
    /\ pc' = IF result'.status = "Ok" THEN "Done" ELSE "Failed"
    /\ UNCHANGED <<fs_global, fs_workspace, global, final_raw, reads>>
    /\ UNCHANGED <<unit_vars, lang_vars>>

Next == LoadDefault \/ LoadGlobal \/ SkipWorkspace \/ LoadWorkspace \/ Materialize

Spec == Init /\ [][Next]_vars

\* Config::load is a synchronous call: a step that can be taken is taken.
FairSpec == Spec /\ WF_vars(Next)

(***************************************************************************)
(* ConfigRaw::merge and Config::try_from on their own, for every pair of   *)
(* raw configs and both trust values: self.merge(other, trust).try_into()  *)
(* as in Config::load_test (config.rs:140-143), and self.try_into().       *)
(***************************************************************************)
UnitInit ==
    /\ unit_pc = "Start"
    /\ unit_self \in RawConfigs \cup {ConfigRaw_default}
    /\ unit_other \in RawConfigs
    /\ unit_trust \in BOOLEAN
    /\ unit_merged = None
    /\ unit_out = Pending
    /\ LoadIdle
    /\ LangIdle

\* self.merge(other, trust)
UnitMerge ==
    /\ unit_pc = "Start"
    /\ unit_merged' = Some(ConfigRaw_merge(unit_self, unit_other, unit_trust))
    /\ unit_pc' = "Merged"
    /\ UNCHANGED <<unit_self, unit_other, unit_trust, unit_out>>
    /\ UNCHANGED <<load_vars, lang_vars>>

\* .try_into() on the merged raw config
UnitTryFrom ==
    /\ unit_pc = "Merged"
    /\ unit_out' = Config_try_from(unit_merged[1])
    /\ unit_pc' = "Converted"
    /\ UNCHANGED <<unit_self, unit_other, unit_trust, unit_merged>>
    /\ UNCHANGED <<load_vars, lang_vars>>

\* self.try_into() with no overlay
UnitTryFromDirect ==
    /\ unit_pc = "Start"
    /\ unit_out' = Config_try_from(unit_self)
    /\ unit_pc' = "ConvertedDirect"
    /\ UNCHANGED <<unit_self, unit_other, unit_trust, unit_merged>>
    /\ UNCHANGED <<load_vars, lang_vars>>

UnitNext == UnitMerge \/ UnitTryFrom \/ UnitTryFromDirect

UnitSpec == UnitInit /\ [][UnitNext]_vars

(***************************************************************************)
(* user_lang_config, step by step.  lang_fs_global and lang_fs_workspace   *)
(* are the files at lang_config_file() and workspace_lang_config_file().   *)
(***************************************************************************)
LangInit ==
    /\ lang_fs_global \in LangFiles
    /\ lang_fs_workspace \in LangFiles
    /\ lang_pc = "Start"
    /\ lang_global = None
    /\ lang_result = Pending
    /\ lang_reads = <<>>
    /\ LoadIdle
    /\ UnitIdle

\* let global = merge_language_config(default_lang_config(), lang_config_file())?;
LangLoadGlobal ==
    /\ lang_pc = "Start"
    /\ LET merged == merge_language_config(default_lang_config, lang_fs_global) IN
         /\ lang_reads' = Append(lang_reads, "global")
         /\ IF merged.status = "Ok"
            THEN /\ lang_global' = merged.value
                 /\ lang_pc' = "LoadedGlobal"
                 /\ lang_result' = lang_result
            ELSE /\ lang_global' = lang_global
                 /\ lang_pc' = "Failed"
                 /\ lang_result' = merged
    /\ UNCHANGED <<lang_fs_global, lang_fs_workspace>>
    /\ UNCHANGED <<load_vars, unit_vars>>

\* _ => global
LangSkipWorkspace ==
    /\ lang_pc = "LoadedGlobal"
    /\ ~LangWorkspaceEnabled(lang_global[1])
    /\ lang_result' = Ok(lang_global[1])
    /\ lang_pc' = "Done"
    /\ UNCHANGED <<lang_fs_global, lang_fs_workspace, lang_global, lang_reads>>
    /\ UNCHANGED <<load_vars, unit_vars>>

\* Some(true) => merge_language_config(global, workspace_lang_config_file())?
LangLoadWorkspace ==
    /\ lang_pc = "LoadedGlobal"
    /\ LangWorkspaceEnabled(lang_global[1])
    /\ lang_reads' = Append(lang_reads, "workspace")
    /\ lang_result' = merge_language_config(lang_global[1], lang_fs_workspace)
    /\ lang_pc' = IF lang_result'.status = "Ok" THEN "Done" ELSE "Failed"
    /\ UNCHANGED <<lang_fs_global, lang_fs_workspace, lang_global>>
    /\ UNCHANGED <<load_vars, unit_vars>>

LangNext == LangLoadGlobal \/ LangSkipWorkspace \/ LangLoadWorkspace

LangSpec == LangInit /\ [][LangNext]_vars

(***************************************************************************)
(* Vocabulary of the properties.                                           *)
(***************************************************************************)
WasRead(name) == \E i \in DOMAIN reads : reads[i] = name

\* The file can be read and parses into a ConfigRaw.
Parses(file) == file.io = "ok" /\ file.syntax /\ ~file.unknown_key

Terminal == pc \in {"Done", "Failed"}

\* The workspace file was read, parsed and merged over the global layer.
WorkspaceMerged == WasRead("workspace") /\ Parses(fs_workspace)

(***************************************************************************)
(* C1  Trust gate: when the load succeeds, the final workspace_config is   *)
(* the global file's workspace-config if it sets one and false otherwise;  *)
(* the workspace file's own workspace-config never changes it.             *)
(***************************************************************************)
C1_TrustGate ==
    result.status = "Ok" =>
        /\ result.value[1].workspace_config =
              UnwrapOr(fs_global.raw.workspace_config, FALSE)
        /\ result.value[1].workspace_config = UnwrapOr(global[1].workspace_config, FALSE)

\* The workspace file was merged and asks for the opposite of the global
\* layer's true.
C1_Witness ==
    /\ result.status = "Ok"
    /\ WorkspaceMerged
    /\ fs_global.raw.workspace_config = Some(TRUE)
    /\ fs_workspace.raw.workspace_config = Some(FALSE)
    /\ result.value[1].workspace_config = TRUE

(***************************************************************************)
(* C2  The workspace file is read if and only if the global layer's        *)
(* workspace_config is true, which takes the global file setting it to     *)
(* true; otherwise it is never read and the final raw config is the        *)
(* global one, whatever the workspace file is.                             *)
(***************************************************************************)
C2_WorkspaceReadIffEnabled ==
    /\ WasRead("workspace") =>
          /\ global # None
          /\ global[1].workspace_config = Some(TRUE)
          /\ fs_global.raw.workspace_config = Some(TRUE)
    /\ (pc \in {"LoadedWorkspace", "Done"} \/ (pc = "Failed" /\ global # None)) =>
          /\ WasRead("workspace") <=> global[1].workspace_config = Some(TRUE)
          /\ WasRead("workspace") <=> fs_global.raw.workspace_config = Some(TRUE)
    /\ (Terminal /\ global # None /\ ~WasRead("workspace")) =>
          /\ final_raw = global
          /\ materialized = 1

\* A finished load that left a well-formed, overriding workspace file
\* unread because the global file omits workspace-config.
C2_Witness ==
    /\ pc = "Done"
    /\ fs_global.raw.workspace_config = None
    /\ Parses(fs_workspace)
    /\ fs_workspace.raw.theme # None
    /\ fs_workspace.raw.theme # fs_global.raw.theme
    /\ ~WasRead("workspace")
    /\ final_raw = global

(***************************************************************************)
(* C3  When the workspace layer is attempted and reading the workspace     *)
(* file fails with an I/O error other than not-found, the load fails with  *)
(* an I/O error and returns no Config.                                     *)
(***************************************************************************)
C3_WorkspaceIoErrorFatal ==
    (WasRead("workspace") /\ fs_workspace.io \notin {"ok", "NotFound"}) =>
        /\ pc = "Failed"
        /\ result.status = "Error"
        /\ result.value = None

(***************************************************************************)
(* C4  If the global file is missing, unreadable or does not parse, the    *)
(* load fails (I/O failure as Error, parse failure as BadConfig), returns  *)
(* no Config and never reads the workspace file.                           *)
(***************************************************************************)
C4_GlobalFailureFatal ==
    (WasRead("global") /\ ~Parses(fs_global)) =>
        /\ pc = "Failed"
        /\ result.status = IF fs_global.io # "ok" THEN "Error" ELSE "BadConfig"
        /\ result.value = None
        /\ global = None
        /\ ~WasRead("workspace")
        /\ materialized = 0

\* The global file has an unknown top-level key next to workspace-config =
\* true, and the workspace file is well-formed.
C4_Witness ==
    /\ pc = "Failed"
    /\ fs_global.io = "ok"
    /\ fs_global.unknown_key
    /\ fs_global.raw.workspace_config = Some(TRUE)
    /\ Parses(fs_workspace)
    /\ result.status = "BadConfig"

(***************************************************************************)
(* C5  When the workspace layer is attempted and the workspace file        *)
(* exists but does not parse, the load fails with BadConfig and returns    *)
(* no Config.                                                              *)
(***************************************************************************)
C5_WorkspaceParseErrorFatal ==
    (WasRead("workspace") /\ fs_workspace.io = "ok" /\ ~Parses(fs_workspace)) =>
        /\ pc = "Failed"
        /\ result.status = "BadConfig"
        /\ result.value = None
        /\ materialized = 0

\* The workspace file was read and has an unknown top-level key, over a
\* global layer that would convert on its own.
C5_Witness ==
    /\ WasRead("workspace")
    /\ fs_workspace.io = "ok"
    /\ fs_workspace.unknown_key
    /\ Config_try_from(global[1]).status = "Ok"
    /\ pc = "Failed"

(***************************************************************************)
(* C6  When the global layer enables workspace-config and the workspace    *)
(* file does not exist, the workspace layer surfaces no error and the      *)
(* result is that of converting the global raw config, the same as with    *)
(* an empty workspace file.                                                *)
(***************************************************************************)
C6_MissingWorkspaceIsEmptyOverlay ==
    (WasRead("workspace") /\ fs_workspace.io = "NotFound") =>
        /\ final_raw = global
        /\ final_raw = Some(ConfigRaw_merge(global[1], EmptyRaw, FALSE))
        /\ materialized = 0 => (pc = "LoadedWorkspace" /\ result = Pending)
        /\ materialized = 1 => (Terminal /\ result = Config_try_from(global[1]))

\* A successful load over a missing workspace file.
C6_Witness ==
    /\ WasRead("workspace")
    /\ fs_workspace.io = "NotFound"
    /\ pc = "Done"
    /\ result.status = "Ok"
    /\ fs_global.raw.theme # None

(***************************************************************************)
(* C7  Schema errors.                                                      *)
(***************************************************************************)
\* The editor tree of a file fails the editor-settings schema.
EditorInvalid(file) ==
    file.raw.editor # None /\ ~Validates(file.raw.editor[1], EditorSchema)

\* C7 as stated: if the editor tree of any file the loader read and parsed
\* fails schema validation, the load fails and returns no Config, also when
\* another layer supplies a valid value for the same key.
C7_SchemaErrorFatalAtAnyLayer ==
    (Terminal /\ (\/ (WasRead("global") /\ Parses(fs_global) /\ EditorInvalid(fs_global))
                  \/ (WorkspaceMerged /\ EditorInvalid(fs_workspace)))) =>
        (pc = "Failed" /\ result.value = None)

\* C7 (amended): the schema is checked once, on the editor tree of the
\* final merged raw config: the conversion fails with BadConfig and returns
\* no Config exactly when that tree is present and does not validate,
\* whichever layer its values come from.
C7_SchemaErrorFatalOnMergedTree ==
    materialized = 1 =>
        /\ final_raw # None
        /\ (pc = "Failed" /\ result.status = "BadConfig" /\ result.value = None)
              <=> (final_raw[1].editor # None
                     /\ ~Validates(final_raw[1].editor[1], EditorSchema))
        /\ (pc = "Done" /\ result.status = "Ok")
              <=> (final_raw[1].editor = None
                     \/ Validates(final_raw[1].editor[1], EditorSchema))

\* The load failed on a schema error that only the workspace file brings.
C7_Witness ==
    /\ materialized = 1
    /\ pc = "Failed"
    /\ WorkspaceMerged
    /\ EditorInvalid(fs_workspace)
    /\ ~EditorInvalid(fs_global)
    /\ fs_global.raw.editor # None

(***************************************************************************)
(* C8  Theme layering: after a successful load the theme is the workspace  *)
(* file's when that layer was merged and sets one, otherwise the global    *)
(* file's, otherwise absent; a workspace file that sets theme and omits    *)
(* workspace-config overrides the theme and workspace_config stays true.   *)
(***************************************************************************)
C8_ThemeLayering ==
    result.status = "Ok" =>
        /\ result.value[1].theme =
              IF WorkspaceMerged /\ fs_workspace.raw.theme # None
              THEN fs_workspace.raw.theme
              ELSE fs_global.raw.theme
        /\ (WorkspaceMerged /\ fs_workspace.raw.theme # None
              /\ fs_workspace.raw.workspace_config = None) =>
              result.value[1].workspace_config = TRUE

\* Global: workspace-config = true, theme = "dark"; workspace: theme =
\* "light", no workspace-config.
C8_Witness ==
    /\ result.status = "Ok"
    /\ WorkspaceMerged
    /\ fs_global.raw.theme = Some("dark")
    /\ fs_workspace.raw.theme = Some("light")
    /\ fs_workspace.raw.workspace_config = None
    /\ result.value[1].theme = Some("light")
    /\ result.value[1].workspace_config = TRUE

(***************************************************************************)
(* C9  Built-in key bindings.                                              *)
(***************************************************************************)
\* The chord paths of a trie, the empty path (its root) included.
RECURSIVE TriePaths(_)
TriePaths(trie) ==
    IF trie.t = "Leaf" THEN {<<>>}
    ELSE {<<>>} \cup UNION {{<<k>> \o p : p \in TriePaths(trie.map[k])} :
                              k \in DOMAIN trie.map}

\* What a trie binds at a chord path, if anything.
RECURSIVE TrieAt(_, _)
TrieAt(trie, path) ==
    IF path = <<>> THEN Some(trie)
    ELSE IF trie.t = "Node" /\ Head(path) \in DOMAIN trie.map
         THEN TrieAt(trie.map[Head(path)], Tail(path))
         ELSE None

ProperPrefixes(path) == {SubSeq(path, 1, n) : n \in 0..(Len(path) - 1)}

\* The tries the merged layers (global, then workspace) give for a Mode.
LayerTries(mode) ==
    {ks[1][mode] : ks \in {k \in {fs_global.raw.keys}
                                  \cup (IF WorkspaceMerged THEN {fs_workspace.raw.keys} ELSE {}) :
                              k # None /\ mode \in DOMAIN k[1]}}

\* What the merged layers bind at a chord path of a Mode.
LayerBindings(mode, path) ==
    {TrieAt(l, path) : l \in LayerTries(mode)} \ {None}

\* C9 as stated: after a successful load every chord path bound in the
\* built-in keymap is still bound in Config.keys, to its default binding or
\* to one a layer defined at that exact chord path.
C9_NoBuiltinBindingRemoved ==
    result.status = "Ok" =>
        \A mode \in Modes : \A p \in TriePaths(keymap_default[mode]) :
            /\ mode \in DOMAIN result.value[1].keys
            /\ LET got == TrieAt(result.value[1].keys[mode], p) IN
                 /\ got # None
                 /\ got[1].t = "Leaf" =>
                       \/ got = TrieAt(keymap_default[mode], p)
                       \/ got \in LayerBindings(mode, p)

\* C9 (amended): after a successful load every chord path bound in the
\* built-in keymap is still bound in Config.keys unless a merged layer binds
\* a command (a Leaf) at a proper prefix of that path, which replaces the
\* whole sub-tree below it; and where Config.keys binds a command at such a
\* path, it is the default's or one a layer defined at that path.
C9_BuiltinBindingKeptUnlessPrefixRebound ==
    result.status = "Ok" =>
        \A mode \in Modes : \A p \in TriePaths(keymap_default[mode]) :
            /\ mode \in DOMAIN result.value[1].keys
            /\ LET got == TrieAt(result.value[1].keys[mode], p) IN
                 /\ \/ got # None
                    \/ \E q \in ProperPrefixes(p) :
                         \E b \in LayerBindings(mode, q) : b[1].t = "Leaf"
                 /\ (got # None /\ got[1].t = "Leaf") =>
                       \/ got = TrieAt(keymap_default[mode], p)
                       \/ got \in LayerBindings(mode, p)

\* Both layers overlay normal mode and the built-in bindings under "g"
\* survive next to an added one.
C9_Witness ==
    /\ result.status = "Ok"
    /\ WorkspaceMerged
    /\ fs_global.raw.keys # None
    /\ fs_workspace.raw.keys # None
    /\ "normal" \in DOMAIN fs_global.raw.keys[1]
    /\ "normal" \in DOMAIN fs_workspace.raw.keys[1]
    /\ fs_global.raw.keys # fs_workspace.raw.keys
    /\ TrieAt(result.value[1].keys["normal"], <<"g", "x">>) # None
    /\ TrieAt(result.value[1].keys["normal"], <<"g", "g">>) = Some(Leaf("goto_file_start"))

(***************************************************************************)
(* C10  Editor settings of the global layer under the workspace merge.     *)
(***************************************************************************)
\* The key paths of a value tree, the empty path (its root) included.
RECURSIVE ValuePaths(_)
ValuePaths(value) ==
    IF value.t # "T" THEN {<<>>}
    ELSE {<<>>} \cup UNION {{<<k>> \o p : p \in ValuePaths(value.m[k])} :
                              k \in DOMAIN value.m}

\* The value a tree holds at a key path, if any.
RECURSIVE ValueAt(_, _)
ValueAt(value, path) ==
    IF path = <<>> THEN Some(value)
    ELSE IF value.t = "T" /\ Head(path) \in DOMAIN value.m
         THEN ValueAt(value.m[Head(path)], Tail(path))
         ELSE None

\* C10 as stated: every key path of the global layer's editor tree is still
\* present in the editor tree of the final raw config after the workspace
\* merge, at every nesting depth.
C10_WorkspaceNeverDeletesEditorKeys ==
    (WorkspaceMerged /\ final_raw # None /\ global[1].editor # None) =>
        /\ final_raw[1].editor # None
        /\ \A p \in ValuePaths(global[1].editor[1]) :
              ValueAt(final_raw[1].editor[1], p) # None

\* C10 (amended): every key path of the global layer's editor tree is still
\* present after the workspace merge unless the workspace file's editor tree
\* holds, at a proper prefix of that path (the root included), a value that
\* is not a table, or any value at nesting depth 3 or more, where the
\* depth-3 merge stops and the overlay replaces the sub-tree.
C10_EditorKeysKeptUnlessSubtreeReplaced ==
    (WorkspaceMerged /\ final_raw # None /\ global[1].editor # None) =>
        /\ final_raw[1].editor # None
        /\ \A p \in ValuePaths(global[1].editor[1]) :
              \/ ValueAt(final_raw[1].editor[1], p) # None
              \/ /\ fs_workspace.raw.editor # None
                 /\ \E q \in ProperPrefixes(p) :
                      LET w == ValueAt(fs_workspace.raw.editor[1], q) IN
                        w # None /\ (w[1].t # "T" \/ Len(q) >= EditorMergeDepth)

\* Both layers set nested editor tables that differ three levels down, and
\* the merge keeps the keys of both.
C10_Witness ==
    /\ WorkspaceMerged
    /\ final_raw # None
    /\ global[1].editor = Some(Chain(3))
    /\ fs_workspace.raw.editor = Some(Sib(3))
    /\ ValueAt(final_raw[1].editor[1], <<"a", "b", "c">>) # None
    /\ ValueAt(final_raw[1].editor[1], <<"a", "b", "s">>) # None

(***************************************************************************)
(* C11  Round-trip of the defaults: converting ConfigRaw::default() with   *)
(* no overlay, and converting it merged with a document in which every     *)
(* field is absent, both succeed and give Config::default(); its keys are  *)
(* the built-in keymap.                                                    *)
(***************************************************************************)
C11_DefaultsRoundTrip ==
    /\ (unit_pc = "ConvertedDirect" /\ unit_self = ConfigRaw_default) =>
          /\ unit_out = Ok(Config_default)
          /\ unit_out.value[1].keys = keymap_default
    /\ (unit_pc = "Converted" /\ unit_self = ConfigRaw_default
          /\ unit_other = EmptyRaw /\ unit_trust) =>
          /\ unit_out = Ok(Config_default)
          /\ unit_out.value[1].keys = keymap_default

\* ConfigRaw::default().merge(empty, true).try_into() has run, as in
\* Config::load_test("").
C11_Witness ==
    /\ unit_pc = "Converted"
    /\ unit_self = ConfigRaw_default
    /\ unit_other = EmptyRaw
    /\ unit_trust
    /\ unit_out.status = "Ok"

(***************************************************************************)
(* C12  Global files that set only keys.                                   *)
(***************************************************************************)
OnlyKeys(file) ==
    /\ Parses(file)
    /\ file.raw.workspace_config = None
    /\ file.raw.theme = None
    /\ file.raw.editor = None
    /\ file.raw.keys # None

\* The chord paths at which a trie binds a command.
TrieLeafPaths(trie) ==
    {p \in TriePaths(trie) : TrieAt(trie, p)[1].t = "Leaf"}

\* The chord paths at which a file's keys bind a command in a Mode.
FileLeafPaths(fk, mode) ==
    IF mode \in DOMAIN fk THEN TrieLeafPaths(fk[mode]) ELSE {}

\* C12 as stated: for every global file that sets only keys, the workspace
\* layer being disabled, the Config has keys equal to merge_keys(default
\* keymap, the file's keys) and every other field as in Config::default();
\* each chord the file binds is a Leaf bound to the file's command and every
\* default binding at another chord of that Mode is intact.
C12_KeysOnlyGlobalFile ==
    (Terminal /\ OnlyKeys(fs_global)) =>
        /\ pc = "Done"
        /\ ~WasRead("workspace")
        /\ LET cfg == result.value[1]
               fk == fs_global.raw.keys[1]
           IN /\ cfg.keys = merge_keys(keymap_default, fk)
              /\ cfg.workspace_config = Config_default.workspace_config
              /\ cfg.theme = Config_default.theme
              /\ cfg.editor = Config_default.editor
              /\ DOMAIN cfg.keys = Modes
              /\ \A mode \in Modes :
                   /\ \A p \in FileLeafPaths(fk, mode) :
                        TrieAt(cfg.keys[mode], p) = TrieAt(fk[mode], p)
                   /\ \A p \in TrieLeafPaths(keymap_default[mode])
                                  \ FileLeafPaths(fk, mode) :
                        TrieAt(cfg.keys[mode], p) = TrieAt(keymap_default[mode], p)

\* C12 (amended): for every global file that sets only keys, the workspace
\* layer being disabled, the Config has keys equal to merge_keys(default
\* keymap, the file's keys) and every other field as in Config::default();
\* each chord path at which the file binds a command is a Leaf bound to that
\* command, and every default command binding of that Mode is intact unless
\* the file defines a binding (a command or a sub-tree) at its chord path or
\* binds a command at a proper prefix of it, which replaces the built-in
\* sub-tree below that prefix.
C12_KeysOnlyGlobalFileUnlessRebound ==
    (Terminal /\ OnlyKeys(fs_global)) =>
        /\ pc = "Done"
        /\ ~WasRead("workspace")
        /\ LET cfg == result.value[1]
               fk == fs_global.raw.keys[1]
           IN /\ cfg.keys = merge_keys(keymap_default, fk)
              /\ cfg.workspace_config = Config_default.workspace_config
              /\ cfg.theme = Config_default.theme
              /\ cfg.editor = Config_default.editor
              /\ DOMAIN cfg.keys = Modes
              /\ \A mode \in Modes :
                   /\ \A p \in FileLeafPaths(fk, mode) :
                        TrieAt(cfg.keys[mode], p) = TrieAt(fk[mode], p)
                   /\ \A p \in TrieLeafPaths(keymap_default[mode]) :
                        \/ TrieAt(cfg.keys[mode], p) = TrieAt(keymap_default[mode], p)
                        \/ /\ mode \in DOMAIN fk
                           /\ \/ TrieAt(fk[mode], p) # None
                              \/ \E q \in ProperPrefixes(p) : q \in FileLeafPaths(fk, mode)

\* The file of the test parsing_keymaps_config_file: insert y and S-C-a,
\* normal A-F12.
C12_Witness ==
    /\ pc = "Done"
    /\ OnlyKeys(fs_global)
    /\ DOMAIN fs_global.raw.keys[1] = {"insert", "normal"}
    /\ TrieAt(result.value[1].keys["insert"], <<"y">>) = Some(Leaf("move_line_down"))
    /\ TrieAt(result.value[1].keys["insert"], <<"esc">>) = Some(Leaf("normal_mode"))
    /\ TrieAt(result.value[1].keys["normal"], <<"A-F12">>) = Some(Leaf("move_next_word_end"))
    /\ TrieAt(result.value[1].keys["normal"], <<"g", "g">>) = Some(Leaf("goto_file_start"))

(***************************************************************************)
(* C13  Config::try_from fails only when the editor tree is present and    *)
(* does not validate, and then returns an error and no Config; when the    *)
(* editor is absent it succeeds with the default editor settings,          *)
(* workspace_config defaulting to false, theme copied, and keys defaulting *)
(* to the built-in keymap when absent.                                     *)
(***************************************************************************)
C13_TryFromFailsOnlyOnEditor ==
    unit_pc \in {"Converted", "ConvertedDirect"} =>
        LET raw == IF unit_pc = "Converted" THEN unit_merged[1] ELSE unit_self IN
          /\ unit_out.status \in {"Ok", "BadConfig"}
          /\ unit_out.status = "BadConfig" =>
                /\ raw.editor # None
                /\ ~Validates(raw.editor[1], EditorSchema)
                /\ unit_out.value = None
          /\ raw.editor = None =>
                /\ unit_out.status = "Ok"
                /\ unit_out.value[1].editor = editor_Config_default
                /\ unit_out.value[1].workspace_config = (raw.workspace_config = Some(TRUE))
                /\ unit_out.value[1].theme = raw.theme
                /\ unit_out.value[1].keys =
                      IF raw.keys = None THEN keymap_default ELSE raw.keys[1]

\* A raw config with only a theme was converted: keys and workspace_config
\* took their defaults.
C13_Witness ==
    /\ unit_pc = "ConvertedDirect"
    /\ unit_self.keys = None
    /\ unit_self.workspace_config = None
    /\ unit_self.editor = None
    /\ unit_self.theme # None
    /\ unit_out.status = "Ok"
    /\ unit_out.value[1].keys = keymap_default
    /\ unit_out.value[1].theme = unit_self.theme

(***************************************************************************)
(* C14  Every run of Config::load follows Start -> LoadedDefault ->        *)
(* LoadedGlobal -> {Done | LoadedWorkspace -> Done} or stops in a failure: *)
(* the workspace file is never read before the global file was read,       *)
(* parsed and merged; the conversion happens once, as the last step; no    *)
(* file is read twice; and every run ends with one Config or an error.     *)
(***************************************************************************)
LoadTransitions ==
    {<<"Start", "LoadedDefault">>,
     <<"LoadedDefault", "LoadedGlobal">>, <<"LoadedDefault", "Failed">>,
     <<"LoadedGlobal", "Done">>, <<"LoadedGlobal", "LoadedWorkspace">>,
     <<"LoadedGlobal", "Failed">>,
     <<"LoadedWorkspace", "Done">>, <<"LoadedWorkspace", "Failed">>}

LoadOrderInv ==
    /\ reads \in {<<>>, <<"global">>, <<"global", "workspace">>}
    /\ WasRead("workspace") => (global # None /\ Parses(fs_global))
    /\ global # None => WasRead("global")
    /\ materialized \in {0, 1}
    /\ materialized = 1 => (Terminal /\ final_raw # None)
    /\ pc = "Done" =>
          (materialized = 1 /\ result.status = "Ok" /\ result.value # None)
    /\ pc = "Failed" =>
          (result.status \in {"Error", "BadConfig"} /\ result.value = None)
    /\ ~Terminal => result = Pending

C14_LoadOrder ==
    /\ []LoadOrderInv
    /\ [][(<<pc, pc'>> \in LoadTransitions)]_vars
    /\ [][materialized' # materialized =>
            (materialized' = 1 /\ final_raw' # None /\ pc' \in {"Done", "Failed"})]_vars
    /\ <>Terminal

\* A run through every state: both files read in order, one conversion.
C14_Witness ==
    /\ pc = "Done"
    /\ reads = <<"global", "workspace">>
    /\ materialized = 1
    /\ WorkspaceMerged
    /\ result.status = "Ok"

(***************************************************************************)
(* C15  Absence means inherit: for both trust values, a field that is      *)
(* absent in the overlay keeps the base's value, so an overlay with every  *)
(* field absent returns the base; and when keys or editor is absent in the *)
(* base and present in the overlay, the result takes the overlay's value   *)
(* as it is.                                                               *)
(***************************************************************************)
C15_AbsenceInherits ==
    unit_merged # None =>
        LET r == unit_merged[1] IN
          /\ unit_other.workspace_config = None =>
                r.workspace_config = unit_self.workspace_config
          /\ unit_other.theme = None => r.theme = unit_self.theme
          /\ unit_other.keys = None => r.keys = unit_self.keys
          /\ unit_other.editor = None => r.editor = unit_self.editor
          /\ unit_other = EmptyRaw => r = unit_self
          /\ (unit_self.keys = None /\ unit_other.keys # None) =>
                r.keys = unit_other.keys
          /\ (unit_self.editor = None /\ unit_other.editor # None) =>
                r.editor = unit_other.editor

\* An untrusted merge in which the overlay brings keys the base lacks and
\* leaves out the theme and workspace_config the base has.
C15_Witness ==
    /\ unit_pc = "Merged"
    /\ ~unit_trust
    /\ unit_self.keys = None
    /\ unit_other.keys # None
    /\ unit_other.theme = None
    /\ unit_self.theme # None
    /\ unit_other.workspace_config = None
    /\ unit_self.workspace_config = Some(TRUE)
    /\ unit_merged[1].theme = unit_self.theme
    /\ unit_merged[1].keys = unit_other.keys

(***************************************************************************)
(* Vocabulary of the language-configuration properties.                    *)
(***************************************************************************)
LangWasRead(name) == \E i \in DOMAIN lang_reads : lang_reads[i] = name

LangTerminal == lang_pc \in {"Done", "Failed"}

\* The tree has a top-level key workspace-config that is the boolean true.
HasWorkspaceConfigTrue(tree) ==
    /\ tree.t = "T"
    /\ "workspace-config" \in DOMAIN tree.m
    /\ tree.m["workspace-config"] = BoolV(TRUE)

(***************************************************************************)
(* C16  user_lang_config reads and merges the workspace languages file     *)
(* only when the merge of the built-in document and the global file has a  *)
(* top-level workspace-config that is the boolean true; when the key is    *)
(* absent, false or not a boolean the workspace file is never read and the *)
(* result is the default+global merge.  The decision precedes the read,    *)
(* so the workspace file cannot cause itself to be merged.                 *)
(***************************************************************************)
C16_LangWorkspaceGated ==
    /\ LangWasRead("workspace") =>
          (lang_global # None /\ HasWorkspaceConfigTrue(lang_global[1]))
    /\ (LangTerminal /\ lang_global # None) =>
          (LangWasRead("workspace") <=> HasWorkspaceConfigTrue(lang_global[1]))
    /\ (LangTerminal /\ lang_global # None /\ ~LangWasRead("workspace")) =>
          /\ lang_pc = "Done"
          /\ lang_result = Ok(lang_global[1])
          /\ lang_result =
                Ok(IF lang_fs_global.io = "ok"
                   THEN merge_toml_values(default_lang_config, lang_fs_global.tree, LangMergeDepth)
                   ELSE default_lang_config)

\* The workspace file sets workspace-config = true itself and stays unread,
\* the global file setting it to false.
C16_Witness ==
    /\ lang_pc = "Done"
    /\ lang_fs_global.io = "ok"
    /\ lang_fs_global.syntax
    /\ ValueGet(lang_fs_global.tree, "workspace-config") = Some(BoolV(FALSE))
    /\ lang_fs_workspace.io = "ok"
    /\ lang_fs_workspace.syntax
    /\ HasWorkspaceConfigTrue(lang_fs_workspace.tree)
    /\ ~LangWasRead("workspace")

(***************************************************************************)
(* C17  In user_lang_config a languages file that cannot be read (global   *)
(* or workspace, whatever the I/O error) is an absent layer and leaves the *)
(* tree merged so far unchanged, so the function never fails because of    *)
(* I/O; a file that is read and does not parse makes it fail with the      *)
(* parse error and return no tree.                                         *)
(***************************************************************************)
C17_LangErrorPolicy ==
    /\ (LangWasRead("global") /\ lang_fs_global.io # "ok") =>
          (lang_global = Some(default_lang_config) /\ lang_pc # "Failed")
    /\ (LangWasRead("workspace") /\ lang_fs_workspace.io # "ok") =>
          (lang_pc = "Done" /\ lang_result = Ok(lang_global[1]))
    /\ (LangWasRead("global") /\ lang_fs_global.io = "ok" /\ ~lang_fs_global.syntax) =>
          (lang_pc = "Failed" /\ lang_global = None /\ ~LangWasRead("workspace"))
    /\ (LangWasRead("workspace") /\ lang_fs_workspace.io = "ok"
          /\ ~lang_fs_workspace.syntax) => lang_pc = "Failed"
    /\ lang_pc = "Failed" =>
          /\ lang_result.status = "TomlError"
          /\ lang_result.value = None
          /\ \/ (lang_reads = <<"global">> /\ lang_fs_global.io = "ok"
                   /\ ~lang_fs_global.syntax)
             \/ (lang_reads = <<"global", "workspace">> /\ lang_fs_workspace.io = "ok"
                   /\ ~lang_fs_workspace.syntax)

\* The global languages file is unreadable for a reason other than
\* not-found and the call returns the built-in document.
C17_Witness ==
    /\ lang_pc = "Done"
    /\ lang_fs_global.io = "PermissionDenied"
    /\ lang_result = Ok(default_lang_config)

====
